---------------------------- MODULE Spec2Model ----------------------------
(***************************************************************************)
(* Model of openmmtools/openmm_torch/repex.py:                             *)
(*   get_atoms_from_resname, assert_no_residue_constraints,                *)
(*   MixedSystemConstructor and RepexConstructor.sampler.                  *)
(*                                                                         *)
(* Three specifications share the variables below:                         *)
(*   SpecValidate  assert_no_residue_constraints on arbitrary inputs       *)
(*   SpecMixed     MixedSystemConstructor.__init__ and .mixed_system       *)
(*   SpecRepex     repeated accesses of RepexConstructor.sampler           *)
(***************************************************************************)
EXTENDS Integers, Sequences, FiniteSets

(* ------------------------------ bounds -------------------------------- *)
NumParticles == 3
MaxConstraints == 2
MaxAtoms == 2
MaxResidues == 2
MaxMixedConstraints == 1
MaxMixedCalls == 1
MaxAccesses == 3

Particles == 0 .. (NumParticles - 1)
ResNames == {"LIG", "HOH"}
ChainIds == 0 .. (MaxResidues - 1)

VARIABLES
    system,          \* openmm.System: the constraint list, a sequence of <<p1, p2>>
    atoms,           \* the atoms argument of assert_no_residue_constraints
    validateResult,  \* outcome of the assert_no_residue_constraints call
    topology,        \* app.Topology: residues in iteration order
    nnpify_id,       \* residue name or chain index
    nnpify_type,     \* "chain", "resname" or anything else
    mpc,             \* position inside MixedSystemConstructor.__init__
    resolveResult,   \* what get_atoms_from_resname produced
    atom_indices,    \* self._atom_indices
    mlog,            \* steps of __init__ executed so far, in order
    mlPotentials,    \* number of MLPotential objects created
    mixedCalls,      \* number of createMixedSystem calls
    mixedAtoms,      \* atoms= argument of the last createMixedSystem call
    self,            \* fields of the RepexConstructor
    file,            \* storage file: 0 absent, k > 0 written by access k, -1 pre-existing
    pc,              \* position inside the sampler property
    access,          \* number of the current access of the property
    fileAtStart,     \* file as it was when the current access began
    log,             \* external calls of the current access, in order
    sampler,         \* the local _sampler
    setupArgs,       \* keyword arguments of the setup call of the current access
    returned,        \* what the current access returned
    removals,        \* os.remove calls over all accesses
    setups           \* setup / setup_decouple calls over all accesses

validateVars == <<atoms, validateResult>>
mixedVars == <<topology, nnpify_id, nnpify_type, mpc, resolveResult,
               atom_indices, mlog, mlPotentials, mixedCalls, mixedAtoms>>
repexVars == <<self, file, pc, access, fileAtStart, log, sampler, setupArgs,
               returned, removals, setups>>
vars == <<system, validateVars, mixedVars, repexVars>>

(* ----------------------------- helpers -------------------------------- *)
SetOfSeq(s) == {s[i] : i \in DOMAIN s}

SeqsUpTo(S, n) == UNION {[1 .. k -> S] : k \in 0 .. n}

RECURSIVE Insert(_, _)
Insert(x, s) ==
    IF s = <<>> THEN <<x>>
    ELSE IF x <= Head(s) THEN <<x>> \o s
    ELSE <<Head(s)>> \o Insert(x, Tail(s))

\* Python's sorted() on a list of ints
RECURSIVE Sorted(_)
Sorted(s) == IF s = <<>> THEN <<>> ELSE Insert(Head(s), Sorted(Tail(s)))

(* ------------------ assert_no_residue_constraints --------------------- *)
\* the loop of lines 78-81: p1 and p2 of every constraint, appended in order
RECURSIVE AllConstraints(_)
AllConstraints(sys) ==
    IF sys = <<>> THEN <<>>
    ELSE <<Head(sys)[1], Head(sys)[2]>> \o AllConstraints(Tail(sys))

FirstEndpointOnly(sys) == [i \in DOMAIN sys |-> sys[i][1]]

SetIntersectP1Only(sys, atms) == SetOfSeq(FirstEndpointOnly(sys)) \cap SetOfSeq(atms)

SetIntersect(sys, atms) == SetOfSeq(AllConstraints(sys)) \cap SetOfSeq(atms)

SkipConstraintCheck(sys, atms) == "ok"

AssertNoResidueConstraints(sys, atms) ==
    IF SetIntersect(sys, atms) # {} THEN "Exception" ELSE "ok"

(* ---------------------- get_atoms_from_resname ------------------------ *)
\* mdtraj.Topology.from_openmm renumbers the atoms 0, 1, 2, ... in iteration
\* order; each entry is the chain index of the atom at that position
RECURSIVE FromOpenMM(_)
FromOpenMM(top) ==
    IF top = <<>> THEN <<>>
    ELSE [i \in DOMAIN Head(top).atoms |-> Head(top).chain] \o FromOpenMM(Tail(top))

\* topology.select("chainid == id"): the indices of the matching atoms
RECURSIVE SelectFrom(_, _, _)
SelectFrom(mdtop, id, i) ==
    IF i > Len(mdtop) THEN <<>>
    ELSE (IF mdtop[i] = id THEN <<i - 1>> ELSE <<>>) \o SelectFrom(mdtop, id, i + 1)

SelectChain(mdtop, id) == SelectFrom(mdtop, id, 1)

AllResnames(top, id) == SelectSeq([i \in DOMAIN top |-> top[i].name], LAMBDA n : n = id)

AtLeastOne(n) == n >= 1

ExactlyOne(n) == n = 1

\* the for/break loop of lines 58-60: the first residue with the name, or the
\* last residue when none has it
BreakResidue(top, id) ==
    IF \E i \in DOMAIN top : top[i].name = id
    THEN top[CHOOSE i \in DOMAIN top :
                /\ top[i].name = id
                /\ \A j \in 1 .. (i - 1) : top[j].name # id]
    ELSE top[Len(top)]

NoOrderCheck(atms) == TRUE

AscendingAssert(atms) == Sorted(atms) = atms

GetAtomsFromResname(top, id, type) ==
    IF type = "chain"
    THEN [status |-> "ok", atoms |-> SelectChain(FromOpenMM(top), id)]
    ELSE IF type = "resname"
    THEN IF ~ExactlyOne(Len(AllResnames(top, id)))
         THEN [status |-> "AssertionError", atoms |-> <<>>]
         ELSE LET residue == BreakResidue(top, id) IN
              IF AscendingAssert(residue.atoms)
              THEN [status |-> "ok", atoms |-> residue.atoms]
              ELSE [status |-> "AssertionError", atoms |-> <<>>]
    ELSE [status |-> "ValueError", atoms |-> <<>>]

(* ------------------------------ inputs -------------------------------- *)
RECURSIVE Sum(_)
Sum(s) == IF s = <<>> THEN 0 ELSE Head(s) + Sum(Tail(s))

\* every particle pair a constraint can join, in either order
ConstraintPairs == {c \in Particles \X Particles : c[1] # c[2]}

Systems == SeqsUpTo(ConstraintPairs, MaxConstraints)

AtomLists == SeqsUpTo(Particles, MaxAtoms)

MixedSystems == SeqsUpTo({c \in ConstraintPairs : c[1] < c[2]}, MaxMixedConstraints)

\* Atom.index of the atoms in iteration order.  Topology.addAtom numbers them
\* 0, 1, 2, ... but index is a plain attribute, and line 64 allows for an
\* order that is not ascending, so every order is drawn.
AtomOrders == {s \in [1 .. NumParticles -> Particles] :
                 \A i, j \in 1 .. NumParticles : i # j => s[i] # s[j]}

\* the number of atoms of each residue; every particle is in one residue
ResidueSizes == {sz \in SeqsUpTo(1 .. NumParticles, MaxResidues) : Sum(sz) = NumParticles}

\* chain index of each residue: chains are contiguous and numbered from 0
ChainAssignments(k) ==
    {ch \in [1 .. k -> ChainIds] :
        /\ k > 0 => ch[1] = 0
        /\ \A i \in 1 .. (k - 1) : ch[i + 1] \in {ch[i], ch[i] + 1}}

MakeTopology(order, sz, names, ch) ==
    [r \in DOMAIN sz |->
        [name |-> names[r],
         chain |-> ch[r],
         atoms |-> SubSeq(order, Sum(SubSeq(sz, 1, r - 1)) + 1, Sum(SubSeq(sz, 1, r)))]]

Topologies ==
    UNION {UNION {{MakeTopology(order, sz, names, ch) :
                      names \in [DOMAIN sz -> ResNames], ch \in ChainAssignments(Len(sz))} :
                  order \in AtomOrders} :
           sz \in ResidueSizes}

Selections ==
    ({"resname"} \X ResNames) \cup ({"chain"} \X ChainIds) \cup {<<"other", "LIG">>}

(* ------------------------ idle values of the parts -------------------- *)
ValidateIdle == atoms = <<>> /\ validateResult = "none"

MixedIdle ==
    /\ topology = <<>>
    /\ nnpify_id = "LIG"
    /\ nnpify_type = "resname"
    /\ mpc = "off"
    /\ resolveResult = [status |-> "none", atoms |-> <<>>]
    /\ atom_indices = <<>>
    /\ mlog = <<>>
    /\ mlPotentials = 0
    /\ mixedCalls = 0
    /\ mixedAtoms = <<>>

NoArgs == [kind |-> "none"]

RepexIdle ==
    /\ self = [restart |-> FALSE, decouple |-> FALSE]
    /\ file = 0
    /\ pc = "off"
    /\ access = 0
    /\ fileAtStart = 0
    /\ log = <<>>
    /\ sampler = [origin |-> "none"]
    /\ setupArgs = NoArgs
    /\ returned = [origin |-> "none"]
    /\ removals = 0
    /\ setups = 0

(* --------------- SpecValidate: assert_no_residue_constraints ---------- *)
InitValidate ==
    /\ system \in Systems
    /\ atoms \in AtomLists
    /\ validateResult = "none"
    /\ MixedIdle
    /\ RepexIdle

CallAssertNoResidueConstraints ==
    /\ validateResult = "none"
    /\ validateResult' = AssertNoResidueConstraints(system, atoms)
    /\ UNCHANGED <<system, atoms, mixedVars, repexVars>>

NextValidate == CallAssertNoResidueConstraints

SpecValidate == InitValidate /\ [][NextValidate]_vars

(* --------------- SpecMixed: MixedSystemConstructor -------------------- *)
InitMixed ==
    /\ system \in MixedSystems
    /\ topology \in Topologies
    /\ \E sel \in Selections : nnpify_type = sel[1] /\ nnpify_id = sel[2]
    /\ mpc = "resolve"
    /\ resolveResult = [status |-> "none", atoms |-> <<>>]
    /\ atom_indices = <<>>
    /\ mlog = <<>>
    /\ mlPotentials = 0
    /\ mixedCalls = 0
    /\ mixedAtoms = <<>>
    /\ ValidateIdle
    /\ RepexIdle

\* line 113: self._atom_indices = get_atoms_from_resname(...)
ResolveAtoms ==
    /\ mpc = "resolve"
    /\ resolveResult' = GetAtomsFromResname(topology, nnpify_id, nnpify_type)
    /\ mlog' = Append(mlog, "resolve")
    /\ IF resolveResult'.status = "ok"
       THEN atom_indices' = resolveResult'.atoms /\ mpc' = "check"
       ELSE atom_indices' = atom_indices /\ mpc' = "failed"
    /\ UNCHANGED <<system, topology, nnpify_id, nnpify_type, mlPotentials,
                   mixedCalls, mixedAtoms, validateVars, repexVars>>

\* line 115: assert_no_residue_constraints(system, self._atom_indices)
CheckConstraints ==
    /\ mpc = "check"
    /\ mlog' = Append(mlog, "check")
    /\ mpc' = IF AssertNoResidueConstraints(system, atom_indices) = "ok"
              THEN "create" ELSE "failed"
    /\ UNCHANGED <<system, topology, nnpify_id, nnpify_type, resolveResult,
                   atom_indices, mlPotentials, mixedCalls, mixedAtoms,
                   validateVars, repexVars>>

\* line 117: self._nnp_potential = MLPotential(...), which may raise
CreatePotential ==
    /\ mpc = "create"
    /\ mlog' = Append(mlog, "create")
    /\ \E raises \in BOOLEAN :
          IF raises
          THEN mpc' = "failed" /\ mlPotentials' = mlPotentials
          ELSE mpc' = "constructed" /\ mlPotentials' = mlPotentials + 1
    /\ UNCHANGED <<system, topology, nnpify_id, nnpify_type, resolveResult,
                   atom_indices, mixedCalls, mixedAtoms, validateVars, repexVars>>

\* lines 120-129: the mixed_system property
MixedSystem ==
    /\ mpc = "constructed"
    /\ mixedCalls < MaxMixedCalls
    /\ mixedCalls' = mixedCalls + 1
    /\ mixedAtoms' = atom_indices
    /\ UNCHANGED <<system, topology, nnpify_id, nnpify_type, mpc, resolveResult,
                   atom_indices, mlog, mlPotentials, validateVars, repexVars>>

NextMixed == ResolveAtoms \/ CheckConstraints \/ CreatePotential \/ MixedSystem

SpecMixed == InitMixed /\ [][NextMixed]_vars

(* --------------- SpecRepex: RepexConstructor.sampler ------------------ *)
\* os.path.isfile(self._storage_kwargs["storage"])
IsFile(f) == f # 0

NeverRemove(exists, restart) == FALSE

RemoveIgnoringRestart(exists, restart) == exists

\* line 197
ShouldRemove(exists, restart) == exists /\ ~restart

NeverRestore(exists, restart) == FALSE

RestoreOnFlagOnly(exists, restart) == restart

\* line 201
ShouldRestore(exists, restart) == exists /\ restart

FallBackToFresh == "construct"

\* line 206 sits in no try block: an error of from_storage leaves the property
OnFromStorageError == "raised"

SetupChoiceByRestart(s) == IF ~s.restart THEN "setup" ELSE "setup_decouple"

\* line 214
SetupChoice(s) == IF ~s.decouple THEN "setup" ELSE "setup_decouple"

\* lines 216-224 and 228-236: the same keyword arguments in both calls
ForwardedArgs(s) ==
    [n_states |-> s.n_states,
     mixed_system |-> s.mixed_system,
     init_positions |-> s.initial_positions,
     temperature |-> s.temperature,
     storage_kwargs |-> s.storage_kwargs,
     setup_equilibration_intervals |-> s.intervals_per_lambda_window,
     equilibration_protocol |-> s.equilibration_protocol,
     steps_per_setup_equilibration_interval |-> s.steps_per_equilibration_interval,
     extra_kwargs |-> s.extra_kwargs]

\* RepexConstructor.__init__ stores its arguments unchanged
Constructors ==
    [restart : BOOLEAN,
     decouple : BOOLEAN,
     n_states : {2, 3},
     mixed_system : {"mixed_system"},
     initial_positions : {"initial_positions"},
     temperature : {"temperature"},
     storage_kwargs : {"repex.nc"},
     intervals_per_lambda_window : {1, 2},
     steps_per_equilibration_interval : {1, 2},
     equilibration_protocol : {"minimise", "gentle"},
     extra_kwargs : {"kwargs"}]

InitRepex ==
    /\ self \in Constructors
    /\ file \in {0, -1}
    /\ pc = "idle"
    /\ access = 0
    /\ fileAtStart = 0
    /\ log = <<>>
    /\ sampler = [origin |-> "none"]
    /\ setupArgs = NoArgs
    /\ returned = [origin |-> "none"]
    /\ removals = 0
    /\ setups = 0
    /\ system = <<>>
    /\ ValidateIdle
    /\ MixedIdle

\* lines 189-196: platform, context cache and the MCMC move are built
BeginAccess ==
    /\ pc \in {"idle", "raised"}
    /\ access < MaxAccesses
    /\ access' = access + 1
    /\ fileAtStart' = file
    /\ log' = <<>>
    /\ sampler' = [origin |-> "none"]
    /\ setupArgs' = NoArgs
    /\ returned' = [origin |-> "none"]
    /\ pc' = "remove_check"
    /\ UNCHANGED <<self, file, removals, setups, system, validateVars, mixedVars>>

\* lines 197-200
RemoveStorage ==
    /\ pc = "remove_check"
    /\ IF ShouldRemove(IsFile(file), self.restart)
       THEN /\ file' = 0
            /\ log' = Append(log, "remove")
            /\ removals' = removals + 1
       ELSE UNCHANGED <<file, log, removals>>
    /\ pc' = "dispatch"
    /\ UNCHANGED <<self, access, fileAtStart, sampler, setupArgs, returned, setups,
                   system, validateVars, mixedVars>>

\* line 201: the file is looked up a second time
Dispatch ==
    /\ pc = "dispatch"
    /\ pc' = IF ShouldRestore(IsFile(file), self.restart) THEN "from_storage" ELSE "construct"
    /\ UNCHANGED <<self, file, access, fileAtStart, log, sampler, setupArgs, returned,
                   removals, setups, system, validateVars, mixedVars>>

\* line 206: NNPRepexSampler.from_storage, which may raise
FromStorage ==
    /\ pc = "from_storage"
    /\ log' = Append(log, "from_storage")
    /\ \E raises \in BOOLEAN :
          IF raises
          THEN pc' = OnFromStorageError /\ sampler' = sampler
          ELSE pc' = "return" /\ sampler' = [origin |-> "storage", source |-> file]
    /\ UNCHANGED <<self, file, access, fileAtStart, setupArgs, returned, removals,
                   setups, system, validateVars, mixedVars>>

\* lines 209-211
ConstructSampler ==
    /\ pc = "construct"
    /\ log' = Append(log, "construct")
    /\ sampler' = [origin |-> "fresh", caches |-> FALSE, cachesAtSetup |-> FALSE]
    /\ pc' = "caches"
    /\ UNCHANGED <<self, file, access, fileAtStart, setupArgs, returned, removals,
                   setups, system, validateVars, mixedVars>>

\* lines 212-213
AssignCaches ==
    /\ pc = "caches"
    /\ log' = Append(log, "assign_caches")
    /\ sampler' = [sampler EXCEPT !.caches = TRUE]
    /\ pc' = "setup"
    /\ UNCHANGED <<self, file, access, fileAtStart, setupArgs, returned, removals,
                   setups, system, validateVars, mixedVars>>

\* the setup call of the mixin: on success the storage file is written; an
\* error may come before or after the file is created
CallSetup(kind) ==
    /\ log' = Append(log, kind)
    /\ setupArgs' = [kind |-> kind, kwargs |-> ForwardedArgs(self)]
    /\ sampler' = [sampler EXCEPT !.cachesAtSetup = sampler.caches]
    /\ setups' = setups + 1
    /\ \E outcome \in {"ok", "raise_before_file", "raise_after_file"} :
          /\ pc' = IF outcome = "ok" THEN "return" ELSE "raised"
          /\ file' = IF outcome = "raise_before_file" THEN file ELSE access
    /\ UNCHANGED <<self, access, fileAtStart, returned, removals, system,
                   validateVars, mixedVars>>

\* lines 214-225
Setup ==
    /\ pc = "setup"
    /\ SetupChoice(self) = "setup"
    /\ CallSetup("setup")

\* lines 226-237
SetupDecouple ==
    /\ pc = "setup"
    /\ SetupChoice(self) = "setup_decouple"
    /\ CallSetup("setup_decouple")

\* line 238
Return ==
    /\ pc = "return"
    /\ returned' = sampler
    /\ pc' = "idle"
    /\ UNCHANGED <<self, file, access, fileAtStart, log, sampler, setupArgs, removals,
                   setups, system, validateVars, mixedVars>>

NextRepex ==
    \/ BeginAccess
    \/ RemoveStorage
    \/ Dispatch
    \/ FromStorage
    \/ ConstructSampler
    \/ AssignCaches
    \/ Setup
    \/ SetupDecouple
    \/ Return

SpecRepex == InitRepex /\ [][NextRepex]_vars

(* ======================= properties of the code ======================= *)
Ascending(s) == \A i, j \in DOMAIN s : i < j => s[i] <= s[j]

\* some constraint of sys has an endpoint among the atoms
TouchesConstraint(sys, atms) ==
    \E i \in DOMAIN sys, j \in DOMAIN atms : atms[j] = sys[i][1] \/ atms[j] = sys[i][2]

Matching == {i \in DOMAIN topology : topology[i].name = nnpify_id}

ByResname == nnpify_type = "resname" /\ resolveResult.status # "none"

Has(l, e) == \E i \in DOMAIN l : l[i] = e

SetupCalls(l) == {i \in DOMAIN l : l[i] \in {"setup", "setup_decouple"}}

Accessing == pc # "off" /\ access > 0

Done == Accessing /\ pc = "idle"

(* C1: assert_no_residue_constraints raises exactly when some constraint   *)
(* has an endpoint among the atoms, and otherwise returns normally, empty  *)
(* constraint list and empty atom collection included.                     *)
C1_RaisesIffConstraintInAtoms ==
    validateResult # "none" =>
        /\ validateResult = "Exception" <=> TouchesConstraint(system, atoms)
        /\ ~TouchesConstraint(system, atoms) => validateResult = "ok"
        /\ (system = <<>> \/ atoms = <<>>) => validateResult = "ok"

C1_Witness ==
    /\ validateResult = "Exception"
    /\ \E i \in DOMAIN system : system[i][2] \in SetOfSeq(atoms)
    /\ \A i \in DOMAIN system : system[i][1] \notin SetOfSeq(atoms)

(* C4 as written: by residue name the resolution fails with an assertion   *)
(* error when the number of residues with the name is not one, and with    *)
(* exactly one such residue it returns that residue's atom indices.        *)
C4_Original ==
    ByResname =>
        /\ Cardinality(Matching) # 1 => resolveResult.status = "AssertionError"
        /\ \A i \in Matching :
              Cardinality(Matching) = 1 =>
                  /\ resolveResult.status = "ok"
                  /\ resolveResult.atoms = topology[i].atoms

(* C4 amended: by residue name the resolution fails with an assertion      *)
(* error when the number of residues with the name is not one; with        *)
(* exactly one such residue it returns that residue's atom indices, and    *)
(* those of no other residue, if they are in ascending order, and fails    *)
(* with an assertion error if they are not.                                *)
C4_ExactlyOneResidue ==
    ByResname =>
        /\ Cardinality(Matching) # 1 => resolveResult.status = "AssertionError"
        /\ \A i \in Matching :
              Cardinality(Matching) = 1 =>
                  IF Ascending(topology[i].atoms)
                  THEN /\ resolveResult.status = "ok"
                       /\ resolveResult.atoms = topology[i].atoms
                       /\ \A j \in DOMAIN topology \ {i} :
                             SetOfSeq(resolveResult.atoms) \cap SetOfSeq(topology[j].atoms) = {}
                  ELSE resolveResult.status = "AssertionError"

C4_Witness ==
    /\ ByResname
    /\ resolveResult.status = "ok"
    /\ Len(topology) > 1
    /\ Cardinality(Matching) = 1
    /\ \E i \in Matching : i > 1 /\ resolveResult.atoms = topology[i].atoms

(* C5: a list of atom indices that get_atoms_from_resname returns, by      *)
(* chain or by residue name, is in ascending order; indices resolved by    *)
(* residue name that are not in ascending order make the resolution fail.  *)
C5_ReturnedAscending ==
    /\ resolveResult.status = "ok" => Ascending(resolveResult.atoms)
    /\ (ByResname /\ Cardinality(Matching) = 1) =>
          \A i \in Matching :
              ~Ascending(topology[i].atoms) => resolveResult.status = "AssertionError"

C5_Witness ==
    /\ ByResname
    /\ Cardinality(Matching) = 1
    /\ \E i \in Matching : ~Ascending(topology[i].atoms)
    /\ resolveResult.status = "AssertionError"
    /\ mpc = "failed"

(* C8: __init__ resolves the atom indices, then checks the constraints,    *)
(* then creates the MLPotential; a failed resolution or check creates no   *)
(* MLPotential; a constructed object, and every mixed_system call, holds   *)
(* atom indices that share no particle with a constraint of the system.    *)
C8_ValidatedBeforePotential ==
    /\ \E n \in 0 .. 3 : mlog = SubSeq(<<"resolve", "check", "create">>, 1, n)
    /\ (mpc = "failed" /\ ~Has(mlog, "create")) => mlPotentials = 0
    /\ Has(mlog, "check") => resolveResult.status = "ok"
    /\ Has(mlog, "create") => ~TouchesConstraint(system, atom_indices)
    /\ mlPotentials > 0 => mlog = <<"resolve", "check", "create">>
    /\ mpc = "constructed" =>
          /\ mlPotentials = 1
          /\ atom_indices = resolveResult.atoms
          /\ ~TouchesConstraint(system, atom_indices)
    /\ mixedCalls > 0 => mpc = "constructed" /\ ~TouchesConstraint(system, mixedAtoms)

C8_Witness ==
    /\ mixedCalls > 0
    /\ system # <<>>
    /\ mixedAtoms # <<>>
    /\ mlPotentials = 1

(* C2: an access that finds the storage file with restart set returns the  *)
(* sampler from_storage gave for that file; it constructs no sampler,      *)
(* calls no setup and does not delete the file.                            *)
C2_RestartRestores ==
    (Accessing /\ self.restart /\ IsFile(fileAtStart)) =>
        /\ log \in {<<>>, <<"from_storage">>}
        /\ file = fileAtStart
        /\ setupArgs = NoArgs
        /\ sampler.origin \in {"none", "storage"}
        /\ Done => (returned.origin = "storage" /\ returned.source = fileAtStart)

C2_Witness ==
    /\ Done
    /\ self.restart
    /\ IsFile(fileAtStart)
    /\ returned.origin = "storage"

(* C3: an access that finds the storage file with restart unset deletes    *)
(* the file, then constructs and sets up a fresh sampler; from_storage is  *)
(* not called in that access.                                              *)
C3_NoRestartDeletesThenBuilds ==
    (Accessing /\ ~self.restart /\ IsFile(fileAtStart)) =>
        /\ ~Has(log, "from_storage")
        /\ pc # "remove_check" => (log # <<>> /\ log[1] = "remove")
        /\ \A i \in DOMAIN log :
              log[i] \in {"construct", "setup", "setup_decouple"} =>
                  \E j \in 1 .. (i - 1) : log[j] = "remove"
        /\ Done => /\ returned.origin = "fresh"
                   /\ Len(log) = 4
                   /\ SubSeq(log, 1, 3) = <<"remove", "construct", "assign_caches">>
                   /\ SetupCalls(log) = {4}

C3_Witness ==
    /\ Done
    /\ ~self.restart
    /\ fileAtStart = -1
    /\ returned.origin = "fresh"
    /\ Has(log, "remove")

(* C6: an error of from_storage leaves the property as an error: the       *)
(* storage file stays in place and no fresh sampler is constructed or set  *)
(* up in that access.                                                      *)
C6_FromStorageErrorPropagates ==
    (Accessing /\ Has(log, "from_storage") /\ sampler.origin # "storage") =>
        /\ pc = "raised"
        /\ log = <<"from_storage">>
        /\ sampler.origin = "none"
        /\ returned.origin = "none"
        /\ setupArgs = NoArgs
        /\ IsFile(file)
        /\ file = fileAtStart

C6_Witness ==
    /\ pc = "raised"
    /\ log = <<"from_storage">>
    /\ access > 1
    /\ IsFile(file)

(* C7: an access that finds no storage file constructs and sets up a       *)
(* fresh sampler whatever restart is; it deletes nothing and does not      *)
(* call from_storage.                                                      *)
C7_NoFileBuildsFresh ==
    (Accessing /\ ~IsFile(fileAtStart)) =>
        /\ ~Has(log, "remove")
        /\ ~Has(log, "from_storage")
        /\ pc \notin {"from_storage"}
        /\ pc = "raised" => SetupCalls(log) # {}
        /\ Done => /\ returned.origin = "fresh"
                   /\ Len(log) = 3
                   /\ SubSeq(log, 1, 2) = <<"construct", "assign_caches">>
                   /\ SetupCalls(log) = {3}

C7_Witness ==
    /\ Done
    /\ self.restart
    /\ ~IsFile(fileAtStart)
    /\ returned.origin = "fresh"

(* C9: over a sequence of accesses, with restart set the storage file is   *)
(* never deleted and, once it exists, no setup runs again and every later  *)
(* access restores from it; with restart unset every access that finds     *)
(* the file deletes it and builds from scratch, so the file a finished     *)
(* access leaves is its own and not the one of an earlier access.          *)
C9_State ==
    Accessing =>
        /\ self.restart => removals = 0
        /\ (self.restart /\ IsFile(fileAtStart)) =>
              (log \in {<<>>, <<"from_storage">>} /\ file = fileAtStart)
        /\ (~self.restart /\ IsFile(fileAtStart) /\ pc # "remove_check") =>
              (Has(log, "remove") /\ file # fileAtStart)
        /\ (~self.restart /\ Done) =>
              (returned.origin = "fresh" /\ file = access /\ setups = access)
        /\ Done => log # <<>>

C9_Step ==
    (self.restart /\ IsFile(file)) => (file' = file /\ setups' = setups)

C9_AcrossAccesses == [](C9_State) /\ [][C9_Step]_vars

C9_Witness ==
    /\ Done
    /\ ~self.restart
    /\ access > 1
    /\ fileAtStart = access - 1
    /\ file = access
    /\ removals > 0

(* C10: a fresh build calls exactly one of setup and setup_decouple, once: *)
(* setup when decouple is unset and setup_decouple when it is set,         *)
(* whatever restart is, with the same forwarded arguments, and after the   *)
(* two context caches were assigned to the sampler.                        *)
C10_Expected ==
    [n_states |-> self.n_states,
     mixed_system |-> self.mixed_system,
     init_positions |-> self.initial_positions,
     temperature |-> self.temperature,
     storage_kwargs |-> self.storage_kwargs,
     setup_equilibration_intervals |-> self.intervals_per_lambda_window,
     equilibration_protocol |-> self.equilibration_protocol,
     steps_per_setup_equilibration_interval |-> self.steps_per_equilibration_interval,
     extra_kwargs |-> self.extra_kwargs]

C10_OneSetupByDecouple ==
    Accessing =>
        /\ Cardinality(SetupCalls(log)) <= 1
        /\ \A i \in SetupCalls(log) :
              /\ log[i] = (IF self.decouple THEN "setup_decouple" ELSE "setup")
              /\ \E j \in 1 .. (i - 1) : log[j] = "assign_caches"
              /\ \E j \in 1 .. (i - 1) : log[j] = "construct"
              /\ sampler.cachesAtSetup
              /\ setupArgs = [kind |-> log[i], kwargs |-> C10_Expected]
        /\ (Has(log, "construct") /\ pc \in {"idle", "raised"}) =>
              Cardinality(SetupCalls(log)) = 1
        /\ SetupCalls(log) = {} => setupArgs = NoArgs

C10_Witness ==
    /\ Done
    /\ self.restart
    /\ self.decouple
    /\ self.intervals_per_lambda_window # self.steps_per_equilibration_interval
    /\ returned.origin = "fresh"
    /\ Has(log, "setup_decouple")

=============================================================================
